---------------------------- MODULE Spec2Model ----------------------------
(***************************************************************************)
(* A model of dedalus' spectral field representation                       *)
(* (dedalus/data_objects/fourier_data.py): FourierRepresentation and       *)
(* FourierShearRepresentation.                                             *)
(*                                                                         *)
(* Numbers.  A complex number is an element of Z[w], w = exp(i pi/4),      *)
(* written as four integers.  A buffer is a function from index tuples to  *)
(* such numbers together with one shared binary exponent `scale': the      *)
(* value of entry idx is data[idx] / 2^scale.  Axis lengths are drawn from *)
(* {1, 2, 4, 8}, whose DFT twiddle factors are powers of w, and lengths    *)
(* are 2*pi/kappa with kappa a positive integer, so that wavenumbers are   *)
(* integers; every transform, normalisation and comparison of the code is  *)
(* then computed exactly.                                                  *)
(*                                                                         *)
(* Axes.  An index tuple idx has positions 1..ndim; position a is the      *)
(* code's axis a-1.                                                        *)
(***************************************************************************)
EXTENDS Integers, Sequences, FiniteSets, TLC

VARIABLES
    cfg,          \* constructor arguments: class, method, dealiasing, shape, kappa, deltay
    data,         \* self.data: numerators of the buffer's entries
    scale,        \* shared binary exponent of the buffer
    curr_space,   \* self._curr_space
    bufid,        \* identity of the object self.data is bound to (0: the one built at construction)
    op,           \* the last operation called from outside, with its arguments
    calls,        \* the methods that operation ran, in call order
    err,          \* the exception it raised, or "none"
    ret,          \* the array it returned (deriv), or NoRet
    nops,         \* the number of calls made so far
    herm,         \* the array handed to the serial enforce_hermitian, and its outcome
    par,          \* the processes of the parallel enforce_hermitian and their messages
    rst,          \* the field components and the data file of load_all_data
    phys          \* the physics object: its construction arguments, its cs2 table and lookup

vars == <<cfg, data, scale, curr_space, bufid, op, calls, err, ret, nops, herm, par, rst, phys>>

-----------------------------------------------------------------------------
(* Complex arithmetic in Z[w], w = exp(i pi/4): <<a, b, c, d>> is           *)
(* a + b w + c w^2 + d w^3, with w^2 = i and w^4 = -1                     *)

CZero == <<0, 0, 0, 0>>

CAdd(x, y) == <<x[1] + y[1], x[2] + y[2], x[3] + y[3], x[4] + y[4]>>

CScale(n, z) == <<n * z[1], n * z[2], n * z[3], n * z[4]>>

CConj(z) == <<z[1], -z[4], -z[3], -z[2]>>

\* z * w^p
CMulW(z, p) ==
    CASE p % 8 = 0 -> z
      [] p % 8 = 1 -> <<-z[4], z[1], z[2], z[3]>>
      [] p % 8 = 2 -> <<-z[3], -z[4], z[1], z[2]>>
      [] p % 8 = 3 -> <<-z[2], -z[3], -z[4], z[1]>>
      [] p % 8 = 4 -> <<-z[1], -z[2], -z[3], -z[4]>>
      [] p % 8 = 5 -> <<z[4], -z[1], -z[2], -z[3]>>
      [] p % 8 = 6 -> <<z[3], z[4], -z[1], -z[2]>>
      [] OTHER     -> <<z[2], z[3], z[4], -z[1]>>

\* z * i
CMulI(z) == CMulW(z, 2)

\* a complex number is real iff it equals its conjugate
IsReal(z) == z = CConj(z)

\* twice the real part: z + conj(z)
TwiceRe(z) == CAdd(z, CConj(z))

\* |z|^2 = P + Q sqrt(2) with P, Q integers
AbsP(z) == z[1] * z[1] + z[2] * z[2] + z[3] * z[3] + z[4] * z[4]

AbsQ(z) == z[1] * z[2] + z[2] * z[3] + z[3] * z[4] - z[1] * z[4]

Abs(n) == IF n < 0 THEN -n ELSE n

\* q sqrt(2) < r and q sqrt(2) > r for naturals q, r, decided in integers by
\* descent: for q < r < 2q, q sqrt(2) < r iff (r - q) sqrt(2) > 2q - r
RECURSIVE Sqrt2Lt(_, _), Sqrt2Gt(_, _)
Sqrt2Lt(q, r) ==
    IF q = 0 THEN r > 0
    ELSE IF r <= q THEN FALSE
    ELSE IF r >= 2 * q THEN TRUE
    ELSE Sqrt2Gt(r - q, 2 * q - r)

Sqrt2Gt(q, r) ==
    IF q = 0 THEN FALSE
    ELSE IF r <= q THEN TRUE
    ELSE IF r >= 2 * q THEN FALSE
    ELSE Sqrt2Lt(r - q, 2 * q - r)

\* P + Q sqrt(2) < T for integers P, Q, T
LessSqrt2(P, Q, T) ==
    IF Q >= 0 THEN T - P > 0 /\ Sqrt2Lt(Q, T - P)
    ELSE T - P >= 0 \/ Sqrt2Gt(-Q, P - T)

\* |z| < m for a natural m
AbsLess(z, m) ==
    IF Abs(z[1]) + Abs(z[2]) + Abs(z[3]) + Abs(z[4]) < m THEN TRUE
    ELSE IF \E c \in 1..4 : Abs(z[c]) >= m /\ \A e \in 1..4 : e # c => z[e] = 0 THEN FALSE
    ELSE IF (z[2] = 0 /\ z[4] = 0) \/ (z[1] = 0 /\ z[3] = 0)
    THEN /\ \A c \in 1..4 : Abs(z[c]) < m
         /\ AbsP(z) < m * m
    ELSE LessSqrt2(AbsP(z), AbsQ(z), m * m)

RECURSIVE Pow2(_)
Pow2(n) == IF n = 0 THEN 1 ELSE 2 * Pow2(n - 1)

RECURSIVE Log2(_)
Log2(n) == IF n <= 1 THEN 0 ELSE 1 + Log2(n \div 2)

RECURSIVE CSum(_)
CSum(s) == IF Len(s) = 0 THEN CZero ELSE CAdd(Head(s), CSum(Tail(s)))

RECURSIVE Prod(_)
Prod(s) == IF Len(s) = 0 THEN 1 ELSE Head(s) * Prod(Tail(s))

-----------------------------------------------------------------------------
(* Arrays *)

RECURSIVE MaxOf(_)
MaxOf(s) ==
    IF Len(s) = 0 THEN 0
    ELSE IF Head(s) > MaxOf(Tail(s)) THEN Head(s) ELSE MaxOf(Tail(s))

Idx(shape) ==
    {t \in [1..Len(shape) -> 0..(MaxOf(shape) - 1)] :
        \A a \in 1..Len(shape) : t[a] < shape[a]}

Size(shape) == Prod(shape)

Zeros(shape) == [t \in Idx(shape) |-> CZero]

\* the canonical form of (d, s): the smallest exponent with integer numerators
RECURSIVE Reduce(_, _)
Reduce(d, s) ==
    IF \A t \in DOMAIN d : d[t] = CZero THEN [data |-> d, scale |-> 0]
    ELSE IF s > 0 /\ \A t \in DOMAIN d : \A c \in 1..4 : d[t][c] % 2 = 0
    THEN Reduce([t \in DOMAIN d |-> [c \in 1..4 |-> d[t][c] \div 2]], s - 1)
    ELSE [data |-> d, scale |-> s]


-----------------------------------------------------------------------------
(* Geometry of the field: __init__ *)

ndim == Len(cfg.shape)

\* numpy.fft.fftfreq(n) * n: the signed integer frequency of index j
FftFreq(n, j) == IF j <= (n - 1) \div 2 THEN j ELSE j - n

\* the axis (1-based) that self.k files under a label: zip(['z','y','x'][3-ndim:], k)
LabelPos(label) == CASE label = "x" -> 0 [] label = "y" -> 1 [] label = "z" -> 2 [] OTHER -> 3

HasK(label) == LabelPos(label) < ndim

KAxis(label) == ndim - LabelPos(label)

\* self.k[label] at index t, broadcast over the grid: fftfreq(S) * 2 * kny = m * kappa
K(label, t) == FftFreq(cfg.shape[KAxis(label)], t[KAxis(label)]) * cfg.kappa[KAxis(label)]

\* 2 * self.kny[-i]; kny = pi * shape / length = shape * kappa / 2
Kny2Neg(i) == cfg.shape[ndim - i + 1] * cfg.kappa[ndim - i + 1]

\* numpy.finfo(dtype).eps, in units of a numerator with scale 0
Eps == 2

-----------------------------------------------------------------------------
(* The transform primitives (fftw3 plans, numpy.fft) *)

\* exp(2*pi*i*e/n) as a power of w, for n in {1, 2, 4, 8}
Twiddle(n, e) == (8 \div n) * e

\* the unnormalised DFT of d along axis a, exponent sign sg
DFTAxis(d, shape, a, sg) ==
    [t \in DOMAIN d |->
        CSum([j \in 1..shape[a] |->
                CMulW(d[[t EXCEPT ![a] = j - 1]],
                      Twiddle(shape[a], sg * (j - 1) * t[a]))])]

RECURSIVE DFTUpTo(_, _, _, _)
DFTUpTo(d, shape, a, sg) ==
    IF a = 0 THEN d ELSE DFTAxis(DFTUpTo(d, shape, a - 1, sg), shape, a, sg)

\* the unnormalised DFT over all axes
DFTN(d, shape, sg) == DFTUpTo(d, shape, Len(shape), sg)

Norm(f) ==
    LET r == Reduce(f.data, f.scale)
    IN  [f EXCEPT !.data = r.data, !.scale = r.scale]

Log(f, name) == [f EXCEPT !.calls = Append(@, name)]

Raise(f, e) == [f EXCEPT !.err = e]

\* an exception is pending: the statements that follow in the method do not run
Failed(f) == f.err # "none"

\* self.data.imag = 0: the real parts, as numerators under exponent f.scale + 1
DropImag(f) ==
    Norm([f EXCEPT !.data = [t \in DOMAIN @ |-> TwiceRe(@[t])], !.scale = @ + 1])

\* fwd_fftw without the division by the number of elements
fwd_fftw_unnormalised(f) == Norm([f EXCEPT !.data = DFTN(@, cfg.shape, -1)])

fwd_fftw(f) ==
    Norm([f EXCEPT !.data = DFTN(@, cfg.shape, -1),
                   !.scale = @ + Log2(Size(cfg.shape))])

rev_fftw(f) ==
    DropImag([f EXCEPT !.data = DFTN(@, cfg.shape, 1)])

fwd_np(f) ==
    Norm([f EXCEPT !.data = DFTN(@, cfg.shape, -1), !.id = 1])

rev_np(f) ==
    DropImag([f EXCEPT !.data = DFTN(@, cfg.shape, 1),
                       !.scale = @ + Log2(Size(cfg.shape)),
                       !.id = 1])

\* self.fft / self.ifft as bound by set_fft
fft(f) ==
    IF Failed(f) THEN f
    ELSE CASE cfg.method = "fftw"  -> fwd_fftw(Log(f, "fft"))
           [] cfg.method = "numpy" -> fwd_np(Log(f, "fft"))

ifft(f) ==
    IF Failed(f) THEN f
    ELSE CASE cfg.method = "fftw"  -> rev_fftw(Log(f, "ifft"))
           [] cfg.method = "numpy" -> rev_np(Log(f, "ifft"))

\* numpy.fft.fft(self.data, axis=a-1) / numpy.fft.ifft(self.data, axis=a-1),
\* assigned to self.data
np_fft(f, a) ==
    IF Failed(f) THEN f
    ELSE IF a > ndim THEN Raise(Log(f, "np_fft"), "IndexError")
    ELSE Norm([Log(f, "np_fft") EXCEPT !.data = DFTAxis(@, cfg.shape, a, -1), !.id = 1])

np_ifft(f, a) ==
    IF Failed(f) THEN f
    ELSE IF a > ndim THEN Raise(Log(f, "np_ifft"), "IndexError")
    ELSE Norm([Log(f, "np_ifft") EXCEPT !.data = DFTAxis(@, cfg.shape, a, 1),
                                          !.scale = @ + Log2(cfg.shape[a]),
                                          !.id = 1])

\* self.data *= exp(sg * 1j * k['y'] * x * deltay), x = linspace(0, 2 pi, shape[-1])
ShearPhase(f, sg) ==
    IF Failed(f) THEN f
    ELSE IF ~HasK("y") THEN Raise(f, "KeyError")
    ELSE [f EXCEPT !.data =
            [t \in DOMAIN @ |->
                CMulW(@[t], Twiddle(cfg.shape[ndim],
                                    sg * K("y", t) * t[ndim] * cfg.deltay))]]

-----------------------------------------------------------------------------
(* The methods of FourierRepresentation and FourierShearRepresentation *)

\* dealias_23 with k['x'] and k['y'] compared against each other's Nyquist
DMask_swapped(t) ==
    \/ 3 * Abs(K("x", t)) > Kny2Neg(2)
    \/ 3 * Abs(K("y", t)) > Kny2Neg(1)
    \/ ndim = 3 /\ 3 * Abs(K("z", t)) > Kny2Neg(3)

\* the zeroing mask of dealias_23: |k| > 2/3. * kny, i.e. 3 |k| > 2 kny
DMask(t) ==
    \/ 3 * Abs(K("x", t)) > Kny2Neg(1)
    \/ 3 * Abs(K("y", t)) > Kny2Neg(2)
    \/ ndim = 3 /\ 3 * Abs(K("z", t)) > Kny2Neg(3)

NyquistMask(t) == \E a \in 1..ndim : t[a] = cfg.shape[a] \div 2

\* abs(z) < eps for the entry with numerator z under exponent s
UnderEps(z, s) == AbsLess(z, Eps * Pow2(s))

\* self.data[mask] = 0., for the mask that holds on the indices in S
ZeroAt(f, S) ==
    IF Failed(f) THEN f
    ELSE Norm([f EXCEPT !.data = [t \in DOMAIN @ |-> IF t \in S THEN CZero ELSE @[t]]])

\* self.data[na.abs(self.data) < self.__eps] = 0.
ZeroUnder(f) ==
    IF Failed(f) THEN f
    ELSE Norm([f EXCEPT !.data =
                 [t \in DOMAIN @ |-> IF UnderEps(@[t], f.scale) THEN CZero ELSE @[t]]])

\* self._curr_space = space
Retag(f, space) == IF Failed(f) THEN f ELSE [f EXCEPT !.space = space]

RECURSIVE getitem(_, _), forward(_), backward(_), dealias_23(_)
RECURSIVE zero_nyquist(_), zero_under_eps(_)

\* a field whose dealias attribute is never called
dealias_off(f) == f

\* if self.dealias: self.dealias()
dealias(f) == IF ~Failed(f) /\ cfg.dealiasing = "2/3" THEN dealias_23(f) ELSE f

getitem(f, space) ==
    IF space = f.space THEN f
    ELSE IF space = "xspace" THEN backward(f)
    ELSE IF space = "kspace" THEN forward(f)
    ELSE Raise(f, "KeyError")

dealias_23(f) ==
    IF ~HasK("y") THEN Raise(Log(f, "dealias_23"), "KeyError")
    ELSE ZeroAt(getitem(Log(f, "dealias_23"), "kspace"),
                {t \in Idx(cfg.shape) : DMask(t)})

\* zero_nyquist that only switches spaces
zero_nyquist_skip(f) ==
    IF Failed(f) THEN f ELSE getitem(Log(f, "zero_nyquist"), "kspace")

zero_nyquist(f) ==
    IF Failed(f) THEN f
    ELSE ZeroAt(getitem(Log(f, "zero_nyquist"), "kspace"),
                {t \in Idx(cfg.shape) : NyquistMask(t)})

\* zero_under_eps on the buffer as it is, without the switch to 'kspace'
zero_under_eps_inplace(f) ==
    IF Failed(f) THEN f ELSE ZeroUnder(Log(f, "zero_under_eps"))

zero_under_eps(f) ==
    IF Failed(f) THEN f
    ELSE ZeroUnder(getitem(Log(f, "zero_under_eps"), "kspace"))

Fourier_forward(f) ==
    zero_under_eps(zero_nyquist(dealias(Retag(fft(f), "kspace"))))

\* backward that forgets to retag the field
Fourier_backward_notag(f) == ifft(dealias(f))

Fourier_backward(f) == Retag(ifft(dealias(f)), "xspace")

Shear_backward(f) ==
    LET f1 == ShearPhase(np_fft(dealias(f), 2), 1)
        f2 == IF ndim = 3 THEN np_fft(f1, 3) ELSE f1
    IN  Retag(np_fft(f2, 1), "xspace")

Shear_forward(f) ==
    LET f1 == IF ndim = 3 THEN np_ifft(f, 3) ELSE f
        f2 == np_ifft(ShearPhase(np_ifft(f1, 1), -1), 2)
    IN  zero_nyquist(dealias(Retag(f2, "kspace")))

forward(f) ==
    IF cfg.cls = "Shear" THEN Shear_forward(Log(f, "forward"))
    ELSE Fourier_forward(Log(f, "forward"))

backward(f) ==
    IF cfg.cls = "Shear" THEN Shear_backward(Log(f, "backward"))
    ELSE Fourier_backward(Log(f, "backward"))

\* data.size < self.data.size: the target region of self.data[sli] = data,
\* sli = [slice(i/4+1, i/4+i+1) for i in data.shape], clipped to the buffer
SliLo(i, n) == IF i \div 4 + 1 < n THEN i \div 4 + 1 ELSE n

SliHi(i, n) == IF i \div 4 + i + 1 < n THEN i \div 4 + i + 1 ELSE n

SliLen(i, n) == SliHi(i, n) - SliLo(i, n)

Min(a, b) == IF a < b THEN a ELSE b

\* numpy's rule for assigning an array of shape src to a region of shape dst
Broadcasts(src, dst) == \A a \in 1..Len(dst) : src[a] = dst[a] \/ src[a] = 1

\* the source index that lands on offset p of the region
BIndex(src, p) == [a \in 1..Len(src) |-> IF src[a] = 1 THEN 0 ELSE p[a]]

setitem(f, space, d) ==
    LET n  == cfg.shape
        ds == d.shape
        small  == Size(ds) < Size(n)
        region == [a \in 1..ndim |-> SliLen(ds[a], n[a])]
        lo     == [a \in 1..ndim |-> SliLo(ds[a], n[a])]
        inreg(t) == \A a \in 1..ndim : t[a] >= lo[a] /\ t[a] < lo[a] + region[a]
        cut    == [a \in 1..ndim |-> Min(ds[a], n[a])]
        copied ==
            IF small
            THEN Norm([f EXCEPT !.data =
                        [t \in DOMAIN @ |->
                            IF inreg(t)
                            THEN CScale(Pow2(f.scale),
                                        d.v[BIndex(ds, [a \in 1..ndim |-> t[a] - lo[a]])])
                            ELSE @[t]]])
            ELSE Norm([f EXCEPT !.data = [t \in DOMAIN @ |-> d.v[BIndex(cut, t)]],
                                !.scale = 0])
    IN  IF ~Broadcasts(IF small THEN ds ELSE cut, IF small THEN region ELSE n)
        THEN Raise(f, "ValueError")
        ELSE dealias([copied EXCEPT !.space = space])

NoRet == [ok |-> FALSE, data |-> Zeros(cfg.shape), scale |-> 0]

\* deriv's returned array, i * k[dim] * self.data
Der(f, dim) ==
    LET r == Reduce([t \in DOMAIN f.data |-> CMulI(CScale(K(dim, t), f.data[t]))],
                    f.scale)
    IN  [ok |-> TRUE, data |-> r.data, scale |-> r.scale]

\* self.k[dim]: KeyError when the field has no such axis
LookupK(f, dim) == IF Failed(f) \/ HasK(dim) THEN f ELSE Raise(f, "KeyError")

\* deriv that multiplies whatever the buffer holds
deriv_noforward(f, dim) == LookupK(f, dim)

\* the field after deriv(dim); the returned array is Der of it when err = "none"
deriv(f, dim) == LookupK(IF f.space = "xspace" THEN forward(f) ELSE f, dim)

\* the sum over self.k.values() of k**2 at index t
KSquared(t) ==
    (IF HasK("x") THEN K("x", t) * K("x", t) ELSE 0)
    + (IF HasK("y") THEN K("y", t) * K("y", t) ELSE 0)
    + (IF HasK("z") THEN K("z", t) * K("z", t) ELSE 0)

\* k2 that leaves the mean mode at 0
k2_keepzero(no_zero) ==
    [ok |-> TRUE, scale |-> 0,
     data |-> [t \in Idx(cfg.shape) |-> <<KSquared(t), 0, 0, 0>>]]

\* the array k2(no_zero) returns: zeros of the buffer's shape, k**2 added for
\* every entry of self.k, and with no_zero the entries equal to 0 set to 1
k2(no_zero) ==
    [ok |-> TRUE, scale |-> 0,
     data |-> [t \in Idx(cfg.shape) |->
                 IF no_zero /\ KSquared(t) = 0 THEN <<1, 0, 0, 0>>
                 ELSE <<KSquared(t), 0, 0, 0>>]]

\* self.trans on the keys 0, 1, 2
TransLabel(i) ==
    CASE i = 0 -> "x"
      [] i = 1 -> "y"
      [] i = 2 -> "y"

\* self.trans on the keys 'x', 'y', 'z'
TransIndex(label) ==
    CASE label = "x" -> 0
      [] label = "y" -> 1
      [] label = "z" -> 2

-----------------------------------------------------------------------------
(* Bounds and inputs *)

\* the number of calls made on one field
MaxOps == 3

Methods == {"fftw", "numpy"}

Dealiasings == {"2/3", "none"}

\* shape and kappa (length = 2 pi / kappa) of the fields constructed
Geometries ==
    { [shape |-> <<8>>,       kappa |-> <<1>>],
      [shape |-> <<4, 2>>,    kappa |-> <<1, 1>>],
      [shape |-> <<2, 8>>,    kappa |-> <<2, 1>>],
      [shape |-> <<2, 2, 2>>, kappa |-> <<1, 1, 1>>] }

\* shear_rate * sd.time
DeltaYs == {0, 1}

\* FourierRepresentation with either method; FourierShearRepresentation with
\* the default method, on the 2-D and 3-D grids its transforms index
Configs ==
    { [cls |-> "Fourier", method |-> m, dealiasing |-> a, shape |-> g.shape,
       kappa |-> g.kappa, deltay |-> 0] :
        m \in Methods, a \in Dealiasings, g \in Geometries }
    \cup
    { [cls |-> "Shear", method |-> "fftw", dealiasing |-> a, shape |-> g.shape,
       kappa |-> g.kappa, deltay |-> dy] :
        a \in Dealiasings, g \in {h \in Geometries : Len(h.shape) >= 2},
        dy \in DeltaYs }

Spaces == {"xspace", "kspace", "yspace"}

Dims == {"x", "y", "z"}

\* a real value below eps, a real and an imaginary value above it
Values == {<<1, 0, 0, 0>>, <<32, 0, 0, 0>>, <<0, 0, 32, 0>>}

Origin(shape) == [a \in 1..Len(shape) |-> 0]

\* the mode of frequency 1 along every axis of more than 2 samples
Mode1(shape) == [a \in 1..Len(shape) |-> IF shape[a] > 2 THEN 1 ELSE 0]

Delta(shape, p, z) ==
    [shape |-> shape, v |-> [t \in Idx(shape) |-> IF t = p THEN z ELSE CZero]]

Halved(shape) == [a \in 1..Len(shape) |-> IF shape[a] > 1 THEN shape[a] \div 2 ELSE 1]

Shrunk(shape) == [shape EXCEPT ![Len(shape)] = @ - 1]

Grown(shape) == [shape EXCEPT ![1] = @ + 1]

\* the arrays handed to __setitem__
Inputs(shape) ==
    { Delta(shape, Origin(shape), z) : z \in Values }
    \cup { Delta(shape, Mode1(shape), <<32, 0, 0, 0>>) }
    \cup { Delta(sh, Origin(sh), <<32, 0, 0, 0>>) :
            sh \in {Halved(shape), Shrunk(shape), Grown(shape)} }

-----------------------------------------------------------------------------
(* The state machine: one action per call on the field from outside *)

Self == [data |-> data, scale |-> scale, space |-> curr_space, id |-> bufid,
         calls |-> <<>>, err |-> "none"]

Commit(f, name, arg, d, r) ==
    /\ data' = f.data
    /\ scale' = f.scale
    /\ curr_space' = f.space
    /\ bufid' = f.id
    /\ calls' = f.calls
    /\ err' = f.err
    /\ op' = [name |-> name, arg |-> arg, d |-> d]
    /\ ret' = r
    /\ nops' = nops + 1
    /\ UNCHANGED <<cfg, herm, par, rst, phys>>

NoInput == [shape |-> <<>>, v |-> <<>>]

\* no array, no process and no data file: the field is used on its own
Unused == [phase |-> "unused"]

Init ==
    /\ cfg \in Configs
    /\ data = Zeros(cfg.shape)
    /\ scale = 0
    /\ curr_space = "kspace"
    /\ bufid = 0
    /\ op = [name |-> "init", arg |-> "", d |-> NoInput]
    /\ calls = <<>>
    /\ err = "none"
    /\ ret = NoRet
    /\ nops = 0
    /\ herm = Unused
    /\ par = Unused
    /\ rst = Unused
    /\ phys = Unused

\* field[space]
Get ==
    /\ nops < MaxOps
    /\ \E space \in Spaces :
          Commit(getitem(Self, space), "get", space, NoInput, NoRet)

\* field[space] = d
Set ==
    /\ nops < MaxOps
    /\ \E space \in Spaces, d \in Inputs(cfg.shape) :
          Commit(setitem(Self, space, d), "set", space, d, NoRet)

\* field.forward()
CallForward ==
    /\ nops < MaxOps
    /\ Commit(forward(Self), "forward", "", NoInput, NoRet)

\* field.backward()
CallBackward ==
    /\ nops < MaxOps
    /\ Commit(backward(Self), "backward", "", NoInput, NoRet)

\* field.deriv(dim)
Deriv ==
    /\ nops < MaxOps
    /\ \E dim \in Dims :
          LET f == deriv(Self, dim)
          IN  Commit(f, "deriv", dim, NoInput,
                     IF f.err = "none" THEN Der(f, dim) ELSE NoRet)

\* field.zero_nyquist()
ZeroNyquist ==
    /\ nops < MaxOps
    /\ Commit(zero_nyquist(Self), "zero_nyquist", "", NoInput, NoRet)

\* field.zero_under_eps()
ZeroUnderEps ==
    /\ nops < MaxOps
    /\ Commit(zero_under_eps(Self), "zero_under_eps", "", NoInput, NoRet)

Next ==
    \/ Get
    \/ Set
    \/ CallForward
    \/ CallBackward
    \/ Deriv
    \/ ZeroNyquist
    \/ ZeroUnderEps

Spec == Init /\ [][Next]_vars

-----------------------------------------------------------------------------
(* Call sequences on one field that start with a set of a real array.  op.d *)
(* keeps the array that was set and op.arg the calls made so far, the set   *)
(* entered under its space.                                                 *)

\* the number of calls of one sequence
MaxScript == 3

One == <<1, 0, 0, 0>>

RealValues == {One, <<32, 0, 0, 0>>}

\* 32 sin(x) on 8 samples of [0, 2 pi): 2 sin(j pi/4) = -i (w^j - w^-j)
Sin8 ==
    [shape |-> <<8>>,
     v |-> [t \in Idx(<<8>>) |->
              CScale(16, CMulW(CAdd(CMulW(One, t[1]), CScale(-1, CMulW(One, -t[1]))), 6))]]

ScriptInputs(shape) ==
    { Delta(shape, Origin(shape), z) : z \in RealValues }
    \cup { Delta(shape, Mode1(shape), <<32, 0, 0, 0>>) }
    \cup (IF shape = <<8>> THEN {Sin8} ELSE {})

ScriptInit ==
    /\ cfg \in Configs
    /\ data = Zeros(cfg.shape)
    /\ scale = 0
    /\ curr_space = "kspace"
    /\ bufid = 0
    /\ op = [name |-> "init", arg |-> <<>>, d |-> NoInput]
    /\ calls = <<>>
    /\ err = "none"
    /\ ret = NoRet
    /\ nops = 0
    /\ herm = Unused
    /\ par = Unused
    /\ rst = Unused
    /\ phys = Unused

Running == op.name # "init" /\ Len(op.arg) < MaxScript

\* field[space] = d, for d real and of the field's shape
ScriptSet ==
    /\ op.name = "init"
    /\ \E space \in {"xspace", "kspace"}, d \in ScriptInputs(cfg.shape) :
          Commit(setitem(Self, space, d), "set", <<space>>, d, NoRet)

ScriptForward ==
    /\ Running
    /\ Commit(forward(Self), "forward", Append(op.arg, "forward"), op.d, NoRet)

ScriptBackward ==
    /\ Running
    /\ Commit(backward(Self), "backward", Append(op.arg, "backward"), op.d, NoRet)

ScriptZeroNyquist ==
    /\ Running
    /\ Commit(zero_nyquist(Self), "zero_nyquist", Append(op.arg, "zero_nyquist"),
              op.d, NoRet)

ScriptZeroUnderEps ==
    /\ Running
    /\ Commit(zero_under_eps(Self), "zero_under_eps", Append(op.arg, "zero_under_eps"),
              op.d, NoRet)

\* field.k2(no_zero)
ScriptK2 ==
    /\ Running
    /\ \E no_zero \in BOOLEAN :
          Commit(Self, "k2", Append(op.arg, IF no_zero THEN "k2 no_zero" ELSE "k2"),
                 op.d, k2(no_zero))

ScriptNext ==
    \/ ScriptSet
    \/ ScriptForward
    \/ ScriptBackward
    \/ ScriptZeroNyquist
    \/ ScriptZeroUnderEps
    \/ ScriptK2

Script == ScriptInit /\ [][ScriptNext]_vars

-----------------------------------------------------------------------------
(* hermitianize.enforce_hermitian, serial branch.  The array is a record   *)
(* [shape, data, err]; a view data[...] of it is given by fix, which maps  *)
(* an axis to the index the view fixes it at, or to -1 when the view keeps *)
(* the axis.  Entries are Gaussian integers <<a, 0, c, 0>>.                 *)

\* the field is not used: only the array, the processes or the data file are
Idle ==
    /\ cfg = [cls |-> "Fourier", method |-> "fftw", dealiasing |-> "none",
              shape |-> <<1>>, kappa |-> <<1>>, deltay |-> 0]
    /\ data = Zeros(<<1>>)
    /\ scale = 0
    /\ curr_space = "kspace"
    /\ bufid = 0
    /\ op = [name |-> "init", arg |-> "", d |-> NoInput]
    /\ calls = <<>>
    /\ err = "none"
    /\ ret = [ok |-> FALSE, data |-> Zeros(<<1>>), scale |-> 0]
    /\ nops = 0

FieldVars == <<cfg, data, scale, curr_space, bufid, op, calls, err, ret, nops>>

\* data.imag = 0 that also changes the sign of the real part
ZeroImag_negate(z) == <<-z[1], 0, 0, 0>>

\* data.imag = 0 on a Gaussian integer
ZeroImag(z) == <<z[1], 0, 0, 0>>

Whole(shape) == [a \in 1..Len(shape) |-> -1]

\* data.size of the view
ViewSize(shape, fix) == Prod([a \in 1..Len(shape) |-> IF fix[a] = -1 THEN shape[a] ELSE 1])

InView(t, fix) == \A a \in DOMAIN fix : fix[a] = -1 \/ t[a] = fix[a]

\* the last axis of the view
LastFree(fix) == CHOOSE a \in DOMAIN fix : fix[a] = -1 /\ \A b \in DOMAIN fix : b > a => fix[b] # -1

\* the axes of the view, in order
FreeAxes(fix) == SelectSeq([a \in 1..Len(fix) |-> a], LAMBDA a : fix[a] = -1)

\* lengths along the last axis of S[nonzero_flip] and of data[..., n/2:][nonzero]
FlipLen(n) == IF n \div 2 >= 1 THEN n \div 2 - 1 ELSE 0

UpperLen(n) == n - n \div 2 - 1

\* data[..., n[-1]/2:][nonzero] = S[nonzero_flip].conj(), S = data[..., :n[-1]/2]
FlipAssign(h, fix) ==
    LET L == LastFree(fix)
        n == h.shape[L]
        half == n \div 2
        src(t) == [a \in DOMAIN t |->
                     IF fix[a] # -1 THEN t[a]
                     ELSE IF a # L THEN h.shape[a] - t[a]
                     ELSE IF FlipLen(n) = UpperLen(n) THEN n - t[a]
                     ELSE half - 1]
        target(t) ==
            /\ InView(t, fix)
            /\ \A a \in DOMAIN t : fix[a] = -1 => t[a] >= 1
            /\ t[L] >= half + 1
    IN  [h EXCEPT !.data = [t \in DOMAIN @ |-> IF target(t) THEN CConj(@[src(t)]) ELSE @[t]]]

RECURSIVE enforce_hermitian(_, _), EnforceZeroSpaces(_, _, _)

\* enforce_hermitian(data[view])
enforce_hermitian(h, fix) ==
    IF h.err # "none" THEN h
    ELSE IF ViewSize(h.shape, fix) = 1
    THEN [h EXCEPT !.data = [t \in DOMAIN @ |-> IF InView(t, fix) THEN ZeroImag(@[t]) ELSE @[t]]]
    ELSE IF ~(FlipLen(h.shape[LastFree(fix)]) = UpperLen(h.shape[LastFree(fix)])
              \/ FlipLen(h.shape[LastFree(fix)]) = 1)
    THEN [h EXCEPT !.err = "ValueError"]
    ELSE EnforceZeroSpaces(
            enforce_hermitian(FlipAssign(h, fix),
                              [fix EXCEPT ![LastFree(fix)] = h.shape[LastFree(fix)] \div 2]),
            fix, FreeAxes(fix))

\* for i in xrange(data.ndim): enforce_hermitian(data[zspace]) with axis i at 0
EnforceZeroSpaces(h, fix, axes) ==
    IF Len(axes) = 0 THEN h
    ELSE EnforceZeroSpaces(enforce_hermitian(h, [fix EXCEPT ![Head(axes)] = 0]),
                           fix, Tail(axes))

\* the shapes of the arrays handed to enforce_hermitian
HermShapes ==
    { <<n>> : n \in 1..6 }
    \cup { <<m, n>> : m, n \in 2..4 } \cup { <<1, 1>>, <<1, 2>>, <<1, 4>>, <<4, 1>> }
    \cup { <<l, m, n>> : l, m, n \in {2, 4} }
    \cup { <<1, 1, 1>>, <<1, 2, 2>>, <<2, 3, 2>>, <<3, 2, 2>>, <<2, 2, 3>> }

HermPatterns == {1, 2}

\* the position of t in the flattened array
RECURSIVE Flat(_, _, _)
Flat(t, shape, a) ==
    IF a > Len(shape) THEN 0 ELSE t[a] + shape[a] * Flat(t, shape, a + 1)

\* an array without any symmetry: all entries differ and none is real
Pattern(shape, p) ==
    [t \in Idx(shape) |-> <<p + Flat(t, shape, 1), 0, 1 + p * Flat(t, shape, 1), 0>>]

\* the index of the coefficient of the opposite wavevector
Opposite(t, shape) == [a \in DOMAIN t |-> (shape[a] - t[a]) % shape[a]]

\* M[k] + conj(M[-k]) for M without symmetry: a Hermitian-symmetric array
\* with every coefficient present
FullSpectrum(shape) ==
    [shape |-> shape,
     v |-> [t \in Idx(shape) |->
              CAdd(Pattern(shape, 1)[t], CConj(Pattern(shape, 1)[Opposite(t, shape)]))]]

\* the arrays handed to enforce_hermitian: without symmetry, or Hermitian
HermArrays(shape) == {Pattern(shape, p) : p \in HermPatterns} \cup {FullSpectrum(shape).v}

\* first keeps the array as it was handed in
HermInit ==
    /\ Idle
    /\ \E sh \in HermShapes : \E d \in HermArrays(sh) :
          herm = [phase |-> "ready", shape |-> sh, data |-> d, first |-> d, err |-> "none"]
    /\ par = Unused
    /\ rst = Unused
    /\ phys = Unused

\* enforce_hermitian(data) without MPI (com_sys.comm is None)
Enforce ==
    /\ herm.phase = "ready"
    /\ herm' = [enforce_hermitian(herm, Whole(herm.shape)) EXCEPT !.phase = "done"]
    /\ UNCHANGED <<FieldVars, par, rst, phys>>

\* a second enforce_hermitian(data) on the array the first call returned
EnforceAgain ==
    /\ herm.phase = "done"
    /\ herm.err = "none"
    /\ herm' = [enforce_hermitian(herm, Whole(herm.shape)) EXCEPT !.phase = "twice"]
    /\ UNCHANGED <<FieldVars, par, rst, phys>>

HermNext ==
    \/ Enforce
    \/ EnforceAgain

HermSpec == HermInit /\ [][HermNext]_vars

-----------------------------------------------------------------------------
(* hermitianize.enforce_hermitian, parallel branch: nproc processes, each  *)
(* holding one slab of a 3-axis array along the leading axis.              *)

\* the largest number of processes
MaxProc == 4

\* left = nproc - myproc - 1 with the neighbour on the other side
Left_ring(n, p) == (p + 1) % n

\* left = nproc - myproc - 1
Left(n, p) == n - p - 1

\* right = (nproc - myproc) % nproc
Right(n, p) == (n - p) % n

\* local_shape = (global_shape[0] / size,) + global_shape[1:]
LocalShape(shape, n) == [shape EXCEPT ![1] = @ \div n]

\* the slab of process p of the array G
Slab(G, shape, n, p) ==
    [t \in Idx(LocalShape(shape, n)) |-> G[[t EXCEPT ![1] = @ + p * (shape[1] \div n)]]]

\* recv = na.concatenate((recvleft, recvright), axis=0), at leading index i
RecvAt(RL, RR, ln, i, a, b) ==
    IF i < ln THEN RL[<<i, a, b>>] ELSE RR[<<i - ln, a, b>>]

\* data /= 2. on entries with even parts
CHalf(z) == <<z[1] \div 2, z[2] \div 2, z[3] \div 2, z[4] \div 2>>

\* the first index of recv[sz:0:-1], sz = data.shape[1] / nproc
SliceStart(lshape, n) == Min(lshape[2] \div n, 2 * lshape[1] - 1)

\* the length of recv[sz:0:-1]
SliceLen(lshape, n) == IF SliceStart(lshape, n) >= 1 THEN SliceStart(lshape, n) ELSE 0

\* numpy adds the slice to data[:, ...] only if it has as many rows, or one
RowsFit(lshape, n) == SliceLen(lshape, n) = lshape[1] \/ SliceLen(lshape, n) = 1

\* data[...] += recv[sz:0:-1, ...].conj() for the four index blocks; data /= 2.
Averaged(d, RL, RR, lshape, n) ==
    [t \in DOMAIN d |->
        CHalf(CAdd(d[t],
                   CConj(RecvAt(RL, RR, lshape[1],
                                SliceStart(lshape, n)
                                    - (IF SliceLen(lshape, n) = lshape[1] THEN t[1] ELSE 0),
                                (lshape[2] - t[2]) % lshape[2],
                                (lshape[3] - t[3]) % lshape[3]))))]

\* the shapes of the whole array
ParShapes == { <<2, 2, 2>>, <<4, 4, 2>>, <<4, 2, 2>>, <<2, 4, 2>>, <<3, 3, 2>>, <<5, 5, 1>> }

\* whether a send request is complete once the message is buffered, or only
\* once the message is received: MPI leaves it to the implementation
SendModes == {"eager", "rendezvous"}

\* 2 (M + M^H): a Hermitian-symmetric array with even parts
Symmetric(shape) ==
    [t \in Idx(shape) |->
        CScale(2, CAdd(Pattern(shape, 1)[t],
                       CConj(Pattern(shape, 1)[[a \in 1..3 |-> (shape[a] - t[a]) % shape[a]]])))]

\* an array without any symmetry, with even parts
Doubled(shape) == [t \in Idx(shape) |-> CScale(2, Pattern(shape, 2)[t])]

\* the whole arrays the processes hold slabs of
ParArrays(shape) == {Symmetric(shape), Doubled(shape)}

Ranks(n) == 0..(n - 1)

ParInit ==
    /\ Idle
    /\ herm = Unused
    /\ rst = Unused
    /\ phys = Unused
    /\ \E n \in 1..MaxProc, sh \in ParShapes, mode \in SendModes :
          /\ sh[1] % n = 0
          /\ \E G \in ParArrays(sh) :
              par = [phase |-> "run", nproc |-> n, shape |-> sh, mode |-> mode,
                    whole |-> G,
                    pc   |-> [p \in Ranks(n) |-> "isend left"],
                    slab |-> [p \in Ranks(n) |-> Slab(G, sh, n, p)],
                    err  |-> [p \in Ranks(n) |-> "none"],
                    req  |-> [p \in Ranks(n) |-> <<FALSE, FALSE>>],
                    got  |-> [p \in Ranks(n) |-> <<>>],
                    chan |-> [c \in Ranks(n) \X Ranks(n) |-> <<>>]]

ParKeep == UNCHANGED <<FieldVars, herm, rst, phys>>

At(p, label) == par.phase = "run" /\ p \in Ranks(par.nproc) /\ par.pc[p] = label

\* req = comm.isend(data, dest): the message holds the slab as it is now
Isend(p, dest, r, next) ==
    par' = [par EXCEPT !.chan[<<p, dest>>] = Append(@, [req |-> r, data |-> par.slab[p]]),
                       !.req[p][r] = (par.mode = "eager"),
                       !.pc[p] = next]

\* a receive that leaves the message in the channel
Recv_peek(p, src, next) ==
    /\ Len(par.chan[<<src, p>>]) > 0
    /\ par' = [par EXCEPT !.got[p] = Append(@, Head(par.chan[<<src, p>>]).data),
                          !.req[src][Head(par.chan[<<src, p>>]).req] = TRUE,
                          !.pc[p] = next]

\* comm.recv(source=src): blocks until a message of src has arrived
Recv(p, src, next) ==
    /\ Len(par.chan[<<src, p>>]) > 0
    /\ par' = [par EXCEPT !.chan[<<src, p>>] = Tail(@),
                          !.got[p] = Append(@, Head(par.chan[<<src, p>>]).data),
                          !.req[src][Head(par.chan[<<src, p>>]).req] = TRUE,
                          !.pc[p] = next]

SendLeft(p) ==
    /\ At(p, "isend left")
    /\ Isend(p, Left(par.nproc, p), 1, "isend right")
    /\ ParKeep

SendRight(p) ==
    /\ At(p, "isend right")
    /\ Isend(p, Right(par.nproc, p), 2, "recv left")
    /\ ParKeep

RecvLeft(p) ==
    /\ At(p, "recv left")
    /\ Recv(p, Left(par.nproc, p), "recv right")
    /\ ParKeep

RecvRight(p) ==
    /\ At(p, "recv right")
    /\ Recv(p, Right(par.nproc, p), "waitall")
    /\ ParKeep

\* Waitall([req0, req1]), then the update of the slab
WaitAndAverage(p) ==
    /\ At(p, "waitall")
    /\ par.req[p] = <<TRUE, TRUE>>
    /\ par' = IF RowsFit(LocalShape(par.shape, par.nproc), par.nproc)
              THEN [par EXCEPT !.slab[p] = Averaged(@, par.got[p][1], par.got[p][2],
                                                    LocalShape(par.shape, par.nproc),
                                                    par.nproc),
                               !.pc[p] = "done"]
              ELSE [par EXCEPT !.err[p] = "ValueError", !.pc[p] = "done"]
    /\ ParKeep

Proc(p) ==
    \/ SendLeft(p)
    \/ SendRight(p)
    \/ RecvLeft(p)
    \/ RecvRight(p)
    \/ WaitAndAverage(p)

ParNext == \E p \in Ranks(MaxProc) : Proc(p)

\* every process is an operating-system process of its own and keeps running
ParSpec ==
    /\ ParInit
    /\ [][ParNext]_vars
    /\ \A p \in Ranks(MaxProc) : WF_vars(Proc(p))

-----------------------------------------------------------------------------
(* restart.load_all_data: the components of the fields of a data object,   *)
(* in the order of the two loops, and the data file's entry for each       *)

\* the largest number of field components of the data object
MaxComp == 2

RestoreConfigs == {c \in Configs : c.cls = "Fourier" /\ c.shape = <<4, 2>>}

\* a representation as __init__ leaves it
Fresh ==
    [data |-> Zeros(cfg.shape), scale |-> 0, space |-> "kspace", id |-> 0,
     calls |-> <<>>, err |-> "none"]

NyquistIndex(shape) == [a \in 1..Len(shape) |-> shape[a] \div 2]

\* the representations a component can hold before the restart: new, or set
\* in either space
BeforeLoad ==
    {Fresh} \cup
    { [setitem(Fresh, space, Delta(cfg.shape, Origin(cfg.shape), <<32, 0, 0, 0>>))
          EXCEPT !.calls = <<>>] : space \in {"xspace", "kspace"} }

\* the arrays a data file holds: of the field's shape, one with content at
\* the Nyquist index of every axis
StoredArrays ==
    { Delta(cfg.shape, Origin(cfg.shape), <<32, 0, 0, 0>>),
      Delta(cfg.shape, NyquistIndex(cfg.shape), <<32, 0, 0, 0>>) }

\* data_file[field_comp]: a dataset with its 'space' attribute, or none
FileEntries ==
    { [present |-> TRUE, d |-> d, space |-> space] :
        d \in StoredArrays, space \in {"xspace", "kspace"} }
    \cup { [present |-> FALSE, d |-> NoInput, space |-> ""] }

RestoreInit ==
    /\ cfg \in RestoreConfigs
    /\ data = Zeros(cfg.shape)
    /\ scale = 0
    /\ curr_space = "kspace"
    /\ bufid = 0
    /\ op = [name |-> "init", arg |-> "", d |-> NoInput]
    /\ calls = <<>>
    /\ err = "none"
    /\ ret = NoRet
    /\ nops = 0
    /\ herm = Unused
    /\ par = Unused
    /\ phys = Unused
    /\ \E n \in 1..MaxComp :
          \E comps \in [1..n -> BeforeLoad], file \in [1..n -> FileEntries] :
              rst = [phase |-> "saved", comps |-> comps, before |-> comps,
                     file |-> file, err |-> "none"]

\* the dataset read through field[space] = ... instead of into the buffer
read_direct_set(f, e) == setitem(f, e.space, e.d)

\* data_file[field_comp].read_direct(data[field][comp].data)
read_direct(f, e) == [f EXCEPT !.data = e.d.v, !.scale = 0]

\* data.fields[field][comp]._curr_space = data_file[field_comp].attrs['space']
SetSpaceAttr(f, e) == [f EXCEPT !.space = e.space]

\* the two loops from component i on: the first component without a dataset
\* raises KeyError and ends the call
RECURSIVE load_all_data(_, _)
load_all_data(r, i) ==
    IF i > Len(r.comps) THEN r
    ELSE IF ~r.file[i].present THEN [r EXCEPT !.err = "KeyError"]
    ELSE load_all_data(
            [r EXCEPT !.comps[i] = SetSpaceAttr(read_direct(@, r.file[i]), r.file[i])],
            i + 1)

\* load_all_data(data, filename)
Load ==
    /\ rst.phase = "saved"
    /\ rst' = [load_all_data(rst, 1) EXCEPT !.phase = "loaded"]
    /\ UNCHANGED <<FieldVars, herm, par, phys>>

RestoreNext == Load

RestoreSpec == RestoreInit /\ [][RestoreNext]_vars

-----------------------------------------------------------------------------
(* physics.cs2_at of LinearBaryonCDMCosmology and BaryonCDMCosmology (the   *)
(* two definitions are the same text): the lookup in the table init_cs2    *)
(* has stored, one action per pass of its while loop                       *)

\* the largest number of entries of the table
MaxTable == 3

\* the scale factors a table can hold
ScaleFactors == {4 * k : k \in 1..(MaxTable + 1)}

\* the non-empty ascending tables self._cs2_a
Tables ==
    { tab \in UNION { [1..n -> ScaleFactors] : n \in 1..MaxTable } :
        \A j \in 1..(Len(tab) - 1) : tab[j] < tab[j + 1] }

\* self._cs2_values: one sound speed per entry, all different
SoundSpeeds(tab) == [j \in DOMAIN tab |-> 100 + tab[j]]

\* the scale factors asked for: below, at, between and above the entries
Queries == 0..(4 * (MaxTable + 2))

\* the position seq[i] reads in a list of n entries (Python counts from 0,
\* and from the end for negative i), or 0 when it raises IndexError
PyIndex(n, i) ==
    IF i >= 0 /\ i < n THEN i + 1
    ELSE IF i < 0 /\ i >= -n THEN n + i + 1
    ELSE 0

\* int(na.ceil(d / 2.))
CeilHalf(d) == (d + 1) \div 2

CsInit ==
    /\ Idle
    /\ herm = Unused
    /\ par = Unused
    /\ rst = Unused
    /\ \E tab \in Tables :
          phys = [phase |-> "cs2", tab |-> tab, vals |-> SoundSpeeds(tab), pc |-> "idle",
                  a |-> 0, lower |-> 0, upper |-> 0, i |-> 0, ret |-> 0]

CsKeep == UNCHANGED <<FieldVars, herm, par, rst>>

\* cs2_at(a) up to the loop: lower = 0; upper = len(self._cs2_a); i = 0
CallCs2At ==
    /\ phys.phase = "cs2"
    /\ phys.pc = "idle"
    /\ \E a \in Queries :
          phys' = [phys EXCEPT !.a = a, !.lower = 0, !.upper = Len(phys.tab), !.i = 0,
                               !.pc = "loop"]
    /\ CsKeep

\* the two tests that end a pass: i == len(self._cs2_a), lower >= upper - 1
EndOfPass(ph) ==
    IF ph.i = Len(ph.tab)
    THEN [ph EXCEPT !.pc = "returned", !.ret = ph.vals[Len(ph.tab)]]
    ELSE IF ph.lower >= ph.upper - 1
    THEN IF PyIndex(Len(ph.tab), ph.i) = 0
         THEN [ph EXCEPT !.pc = "raised"]
         ELSE [ph EXCEPT !.pc = "returned", !.ret = ph.vals[PyIndex(Len(ph.tab), ph.i)]]
    ELSE ph

\* the comparison of a with self._cs2_a[i] at position x, and the new bounds
Bisect(ph, x) ==
    IF ph.a > ph.tab[x]
    THEN [ph EXCEPT !.lower = ph.i, !.i = ph.i + CeilHalf(ph.upper - ph.i)]
    ELSE IF ph.a < ph.tab[x]
    THEN [ph EXCEPT !.upper = ph.i, !.i = ph.i - CeilHalf(ph.i - ph.lower)]
    ELSE ph

\* one pass of the while loop
Pass ==
    /\ phys.phase = "cs2"
    /\ phys.pc = "loop"
    /\ phys' = IF PyIndex(Len(phys.tab), phys.i) = 0
               THEN [phys EXCEPT !.pc = "raised"]
               ELSE EndOfPass(Bisect(phys, PyIndex(Len(phys.tab), phys.i)))
    /\ CsKeep

CsNext ==
    \/ CallCs2At
    \/ Pass

\* a call that has started keeps running
CsSpec == CsInit /\ [][CsNext]_vars /\ WF_vars(Pass)

-----------------------------------------------------------------------------
(* physics.Physics.__init__, as every physics class runs it first when an   *)
(* object is constructed                                                   *)

PhysicsClasses ==
    {"Physics", "IncompressibleHydro", "ShearIncompressibleHydro", "BoussinesqHydro",
     "IncompressibleMHD", "ShearIncompressibleMHD", "LinearCollisionlessCosmology",
     "CollisionlessCosmology", "LinearBaryonCDMCosmology", "BaryonCDMCosmology"}

\* the base class named in the class statement
Parent(cls) ==
    CASE cls \in {"IncompressibleHydro", "LinearCollisionlessCosmology",
                  "LinearBaryonCDMCosmology", "BaryonCDMCosmology"} -> "Physics"
      [] cls \in {"ShearIncompressibleHydro", "BoussinesqHydro", "IncompressibleMHD"}
                                                  -> "IncompressibleHydro"
      [] cls = "ShearIncompressibleMHD"           -> "IncompressibleMHD"
      [] cls = "CollisionlessCosmology"           -> "LinearCollisionlessCosmology"

\* the classes whose body assigns allowable_representations
Assigns == {"Physics", "IncompressibleHydro", "ShearIncompressibleHydro"}

\* the list a class body assigns
OwnAllowable(cls) ==
    CASE cls = "Physics"                  -> {}
      [] cls = "IncompressibleHydro"      -> {"FourierRepresentation"}
      [] cls = "ShearIncompressibleHydro" -> {"FourierShearRepresentation"}

\* self.__class__.allowable_representations: the attribute of the nearest
\* class up the inheritance chain that assigns it
RECURSIVE Allowable(_)
Allowable(cls) == IF cls \in Assigns THEN OwnAllowable(cls) ELSE Allowable(Parent(cls))

Representations ==
    {"FourierRepresentation", "FourierShearRepresentation",
     "SphericalHarmonicRepresentation", "ParallelFourierRepresentation"}

PhysShapes == { <<4, 2>>, <<2, 2, 2>> }

\* the length argument: None (the empty tuple here), or a tuple of as many
\* lengths as axes
Lengths(shape) == {<<>>, [a \in DOMAIN shape |-> "L"]}

PhysInit ==
    /\ Idle
    /\ herm = Unused
    /\ par = Unused
    /\ rst = Unused
    /\ \E cls \in PhysicsClasses, rep \in Representations, sh \in PhysShapes :
          \E len \in Lengths(sh) :
              phys = [phase |-> "physics", cls |-> cls, rep |-> rep, shape |-> sh,
                      len |-> len, pc |-> "args", err |-> "none",
                      length |-> <<>>, ndim |-> 0]

\* cls(shape, representation, length): Physics.__init__
Construct ==
    /\ phys.phase = "physics"
    /\ phys.pc = "args"
    /\ phys' = IF phys.rep \in Allowable(phys.cls)
               THEN [phys EXCEPT !.pc = "built",
                                 !.length = IF phys.len # <<>> THEN phys.len
                                            ELSE [a \in DOMAIN phys.shape |-> "2 pi"],
                                 !.ndim = Len(phys.shape)]
               ELSE [phys EXCEPT !.pc = "built", !.err = "ValueError"]
    /\ UNCHANGED <<FieldVars, herm, par, rst>>

PhysNext == Construct

PhysSpec == PhysInit /\ [][PhysNext]_vars

-----------------------------------------------------------------------------
(* The cleanup methods on fields that stay in 'kspace', on grids with even *)
(* and with odd axis lengths: no transform runs                            *)

\* the number of calls made on one field
MaxClean == 3

CleanGeometries ==
    { [shape |-> <<4, 2>>,    kappa |-> <<1, 1>>],
      [shape |-> <<3, 3>>,    kappa |-> <<1, 1>>],
      [shape |-> <<4, 3>>,    kappa |-> <<1, 2>>],
      [shape |-> <<5, 2>>,    kappa |-> <<1, 1>>],
      [shape |-> <<3, 2, 2>>, kappa |-> <<1, 1, 1>>] }

CleanConfigs ==
    { [cls |-> "Fourier", method |-> "fftw", dealiasing |-> a, shape |-> g.shape,
       kappa |-> g.kappa, deltay |-> 0] :
        a \in Dealiasings, g \in CleanGeometries }

\* coefficient z at index p and its conjugate at the opposite index
ModePair(shape, p, z) ==
    [shape |-> shape,
     v |-> [t \in Idx(shape) |->
              IF t = p THEN z ELSE IF t = Opposite(p, shape) THEN CConj(z) ELSE CZero]]

\* the spectra set into the field: all Hermitian-symmetric, one of them with
\* coefficients below eps
HermitianInputs(shape) ==
    { FullSpectrum(shape),
      ModePair(shape, Mode1(shape), <<0, 0, 1, 0>>),
      ModePair(shape, NyquistIndex(shape), <<32, 0, 0, 0>>) }

CleanInit ==
    /\ cfg \in CleanConfigs
    /\ data = Zeros(cfg.shape)
    /\ scale = 0
    /\ curr_space = "kspace"
    /\ bufid = 0
    /\ op = [name |-> "init", arg |-> "", d |-> NoInput]
    /\ calls = <<>>
    /\ err = "none"
    /\ ret = NoRet
    /\ nops = 0
    /\ herm = Unused
    /\ par = Unused
    /\ rst = Unused
    /\ phys = Unused

\* field['kspace'] = d
CleanSet ==
    /\ nops < MaxClean
    /\ \E d \in HermitianInputs(cfg.shape) :
          Commit(setitem(Self, "kspace", d), "set", "kspace", d, NoRet)

\* field.dealias()
CleanDealias ==
    /\ nops < MaxClean
    /\ cfg.dealiasing = "2/3"
    /\ Commit(dealias_23(Self), "dealias", "", NoInput, NoRet)

CleanZeroNyquist ==
    /\ nops < MaxClean
    /\ Commit(zero_nyquist(Self), "zero_nyquist", "", NoInput, NoRet)

CleanZeroUnderEps ==
    /\ nops < MaxClean
    /\ Commit(zero_under_eps(Self), "zero_under_eps", "", NoInput, NoRet)

CleanNext ==
    \/ CleanSet
    \/ CleanDealias
    \/ CleanZeroNyquist
    \/ CleanZeroUnderEps

CleanSpec == CleanInit /\ [][CleanNext]_vars

-----------------------------------------------------------------------------
(* Properties *)

Valid == {"xspace", "kspace"}

\* how many times the last operation ran method `name'
Count(log, name) == Cardinality({i \in DOMAIN log : log[i] = name})

\* the last step was a call of `name'
Called(name) == op'.name = name /\ nops' = nops + 1

\* |k_a| > (2/3) kny_a on some axis a, with k_a = m_a kappa_a and
\* kny_a = shape_a kappa_a / 2 taken from the same axis
OwnAxisOver(t) ==
    \E a \in 1..Len(cfg.shape) :
        3 * Abs(FftFreq(cfg.shape[a], t[a]) * cfg.kappa[a]) > cfg.shape[a] * cfg.kappa[a]

\* the last operation ran forward(), returned, and left the field in 'kspace'
\* (a backward() called in 'xspace' under the 2/3 policy runs forward() inside
\* dealias_23 and then transforms back: it ends in 'xspace')
EndedForward == Count(calls, "forward") > 0 /\ err = "none" /\ curr_space = "kspace"

AtNyquist(t) == \E a \in 1..Len(cfg.shape) : t[a] = cfg.shape[a] \div 2

\* C1: a get of 'xspace' or 'kspace' on a field tagged 'xspace' or 'kspace' runs
\* no transform when the tag is the requested space, exactly one forward() from
\* 'xspace' to 'kspace', exactly one backward() from 'kspace' to 'xspace' (the
\* nested self['kspace'] calls add none), and returns with the tag equal to the
\* requested space.
C1_GetTransformsOnce ==
    [][ (Called("get") /\ curr_space \in Valid /\ op'.arg \in Valid) =>
          /\ Count(calls', "forward") =
                IF curr_space = "xspace" /\ op'.arg = "kspace" THEN 1 ELSE 0
          /\ Count(calls', "backward") =
                IF curr_space = "kspace" /\ op'.arg = "xspace" THEN 1 ELSE 0
          /\ (err' = "none" => curr_space' = op'.arg) ]_vars

\* a get of 'xspace' under the 2/3 policy that ran backward(), with its nested
\* self['kspace'], and returned
C1_Witness ==
    /\ op.name = "get" /\ op.arg = "xspace" /\ err = "none"
    /\ cfg.dealiasing = "2/3"
    /\ Count(calls, "backward") = 1 /\ Count(calls, "dealias_23") = 1
    /\ curr_space = "xspace"

\* C2 as stated: after set(space, data) returns, for space 'xspace' or 'kspace'
\* and data of the field's shape, the tag equals space and no transform has run,
\* with the 2/3 policy and without.
C2_SetKeepsTagNoTransform ==
    (op.name = "set" /\ op.arg \in Valid /\ op.d.shape = cfg.shape /\ err = "none") =>
        /\ curr_space = op.arg
        /\ Count(calls, "forward") = 0
        /\ Count(calls, "backward") = 0

\* C2 amended: set never runs backward(); without dealiasing, and for
\* set('kspace') under the 2/3 policy, it returns with the tag equal to space and
\* no transform run; set('xspace') under the 2/3 policy runs exactly one forward()
\* (dealias_23 switches spaces) and returns with the tag 'kspace'.  It fails only
\* on a 1-axis field under the 2/3 policy (KeyError in dealias_23), after the
\* copy and the tag assignment and before any transform.
C2_SetTagAfterDealias ==
    (op.name = "set" /\ op.arg \in Valid /\ op.d.shape = cfg.shape) =>
        /\ Count(calls, "backward") = 0
        /\ (err = "none" /\ cfg.dealiasing = "2/3" /\ op.arg = "xspace") =>
                curr_space = "kspace" /\ Count(calls, "forward") = 1
        /\ (err = "none" /\ ~(cfg.dealiasing = "2/3" /\ op.arg = "xspace")) =>
                curr_space = op.arg /\ Count(calls, "forward") = 0
        /\ err # "none" =>
                /\ err = "KeyError" /\ Len(cfg.shape) = 1 /\ cfg.dealiasing = "2/3"
                /\ curr_space = op.arg /\ Count(calls, "forward") = 0

\* set('xspace', data) under the 2/3 policy that ran forward() and returned in 'kspace'
C2_Witness ==
    /\ op.name = "set" /\ op.arg = "xspace" /\ op.d.shape = cfg.shape /\ err = "none"
    /\ cfg.dealiasing = "2/3"
    /\ Count(calls, "forward") = 1
    /\ curr_space = "kspace"
    /\ \E t \in DOMAIN data : data[t] # CZero

\* C3: in every state reachable by get, set (any space token), forward, backward,
\* deriv, zero_nyquist and zero_under_eps, the tag is 'xspace' or 'kspace'.
C3_TagIsXspaceOrKspace == curr_space \in Valid

\* C4: a get with a token other than 'xspace' and 'kspace' raises KeyError, runs
\* no transform and leaves the buffer and the tag unchanged.
C4_InvalidGetRaises ==
    [][ (Called("get") /\ op'.arg \notin Valid) =>
          /\ err' = "KeyError"
          /\ Count(calls', "forward") = 0 /\ Count(calls', "backward") = 0
          /\ UNCHANGED <<data, scale, curr_space, bufid>> ]_vars

\* C5: a set() call, whatever the space and the size of the data, leaves the
\* identity of the field's buffer unchanged.
C5_SetKeepsBuffer ==
    [][ Called("set") => bufid' = bufid ]_vars

\* C6: after an operation that ran forward() and left the field in 'kspace',
\* every entry whose index along at least one axis is shape[axis]/2 is exactly
\* zero.
C6_NyquistZeroAfterForward ==
    EndedForward =>
        \A t \in DOMAIN data : AtNyquist(t) => data[t] = CZero

\* forward() on a shear field without dealiasing: zero_nyquist is what zeroes
C6_Witness ==
    /\ op.name = "forward" /\ err = "none"
    /\ cfg.cls = "Shear" /\ cfg.dealiasing = "none"
    /\ Count(calls, "zero_nyquist") = 1
    /\ \E t \in DOMAIN data : data[t] # CZero

\* C7: after forward() on a field of 2 or 3 axes under the 2/3 policy, the
\* dealias mask marks exactly the modes with |k_axis| > (2/3) kny_axis on some
\* axis, each axis against its own Nyquist wavenumber, and every marked mode is
\* zero (so every nonzero mode is within the bound on all axes).
C7_DealiasMaskAfterForward ==
    (cfg.dealiasing = "2/3" /\ Len(cfg.shape) \in {2, 3} /\ EndedForward) =>
        \A t \in DOMAIN data :
            /\ DMask(t) <=> OwnAxisOver(t)
            /\ OwnAxisOver(t) => data[t] = CZero

\* forward() under the 2/3 policy on a grid with a marked mode off every Nyquist
\* index, and modes that survive
C7_Witness ==
    /\ op.name = "forward" /\ err = "none"
    /\ cfg.dealiasing = "2/3" /\ Len(cfg.shape) \in {2, 3}
    /\ \E t \in DOMAIN data : OwnAxisOver(t) /\ ~AtNyquist(t) /\ data[t] = CZero
    /\ \E t \in DOMAIN data : data[t] # CZero

\* C8: after an operation that ran forward() and left the field in 'kspace', no
\* entry has a nonzero magnitude below eps.
C8_NoSubEpsAfterForward ==
    EndedForward =>
        \A t \in DOMAIN data : data[t] = CZero \/ ~AbsLess(data[t], Eps * Pow2(scale))

\* the position of the first entry of log in S, or 0
RECURSIVE FirstOf(_, _, _)
FirstOf(log, S, i) ==
    IF i > Len(log) THEN 0 ELSE IF log[i] \in S THEN i ELSE FirstOf(log, S, i + 1)

\* C9: backward(), under either method and in the shear representation, applies
\* the dealias policy before the inverse transform, leaves every entry with a
\* zero imaginary part and ends with the tag 'xspace'.
C9_BackwardRealInXspace ==
    (op.name = "backward" /\ err = "none") =>
        /\ cfg.dealiasing = "2/3" =>
              /\ FirstOf(calls, {"dealias_23"}, 1) > 0
              /\ FirstOf(calls, {"dealias_23"}, 1) < FirstOf(calls, {"ifft", "np_fft"}, 1)
        /\ \A t \in DOMAIN data : IsReal(data[t])
        /\ curr_space = "xspace"

\* i * k[dim] * z, with k[dim] the signed frequency of t along dim's axis times kappa
IK(dim, t, z) ==
    LET a == Len(cfg.shape) - (CASE dim = "x" -> 0 [] dim = "y" -> 1 [] dim = "z" -> 2)
    IN  CMulW(CScale(FftFreq(cfg.shape[a], t[a]) * cfg.kappa[a], z), 2)

\* r, an array with its exponent, is i * k[dim] * the buffer (d, s)
IsDerivOf(r, dim, d, s) ==
    /\ r.ok
    /\ \A t \in DOMAIN d :
          CScale(Pow2(s), r.data[t]) = CScale(Pow2(r.scale), IK(dim, t, d[t]))

\* C10 as stated: deriv(axis) leaves the tag and the stored buffer unchanged in
\* every starting state, 'xspace' included, and returns i*k[axis]*data.
C10_DerivKeepsTagAndBuffer ==
    [][ Called("deriv") =>
          /\ UNCHANGED <<data, scale, curr_space, bufid>>
          /\ err' = "none" => IsDerivOf(ret', op'.arg, data, scale) ]_vars

\* C10 amended: deriv(axis) leaves the tag and the buffer unchanged unless the
\* field is in 'xspace'; in 'xspace' it first runs forward() once, which puts the
\* spectral coefficients in the buffer and sets the tag to 'kspace'.  When it
\* returns, the result is i*k[axis]*data for the buffer as it then stands.
C10_DerivForcesKspace ==
    [][ Called("deriv") =>
          /\ curr_space = "xspace" =>
                /\ Count(calls', "forward") = 1
                /\ curr_space' = "kspace"
          /\ curr_space # "xspace" =>
                /\ Count(calls', "forward") = 0
                /\ UNCHANGED <<data, scale, curr_space, bufid>>
          /\ err' = "none" => IsDerivOf(ret', op'.arg, data', scale') ]_vars

\* deriv on a field in 'xspace' that ran forward() and returned a nonzero array
C10_Witness ==
    /\ op.name = "deriv" /\ err = "none"
    /\ Count(calls, "forward") = 1
    /\ ret.ok
    /\ \E t \in DOMAIN data : ret.data[t] # CZero

-----------------------------------------------------------------------------
(* Properties of call sequences (specification Script) *)

\* the transform of the representation, without the cleanup that follows it
Spectrum(f) ==
    IF cfg.cls = "Shear"
    THEN np_ifft(ShearPhase(np_ifft(IF ndim = 3 THEN np_ifft(f, 3) ELSE f, 1), -1), 2)
    ELSE fft(f)

\* the coefficients of the array that was set, and of the buffer as it stands
SpectrumSet == Spectrum([Self EXCEPT !.data = op.d.v, !.scale = 0])

SpectrumNow == Spectrum(Self)

\* coefficient t is the same in the spectra S and N
Kept(S, N, t) ==
    CScale(Pow2(N.scale), S.data[t]) = CScale(Pow2(S.scale), N.data[t])

Masked(t) == cfg.dealiasing = "2/3" /\ OwnAxisOver(t)

SubEps(S, t) == UnderEps(S.data[t], S.scale)

\* N has every coefficient of S, but for dropped ones that the mask marks or
\* that are below eps
UpToMaskAndEps(S, N) ==
    \A t \in DOMAIN S.data :
        Kept(S, N, t) \/ (N.data[t] = CZero /\ (Masked(t) \/ SubEps(S, t)))

\* the same, but for dropped ones at a Nyquist index as well
UpToCleanup(S, N) ==
    \A t \in DOMAIN S.data :
        Kept(S, N, t) \/ (N.data[t] = CZero /\ (AtNyquist(t) \/ Masked(t) \/ SubEps(S, t)))

\* C11 as stated: after set('xspace', d) of a real array, forward() and
\* backward(), the buffer has every coefficient of d, except that a coefficient
\* the enabled dealias mask marks, or one below eps, may have been dropped.
C11_RoundTripUpToMaskAndEps ==
    (op.arg = <<"xspace", "forward", "backward">> /\ err = "none") =>
        UpToMaskAndEps(SpectrumSet, SpectrumNow)

\* C11 amended: after a real array is set in 'xspace' and exactly one forward
\* transform and then backward() have run (forward() and backward() with
\* dealiasing disabled; under the 2/3 policy the forward() that set itself runs,
\* and backward()), the buffer has every coefficient of the array, except that
\* a coefficient at a Nyquist index, one the enabled mask marks, or one below
\* eps may have been dropped.
C11_RoundTripUpToCleanup ==
    ( /\ err = "none"
      /\ \/ cfg.dealiasing = "none" /\ op.arg = <<"xspace", "forward", "backward">>
         \/ cfg.dealiasing = "2/3" /\ op.arg = <<"xspace", "backward">> ) =>
        UpToCleanup(SpectrumSet, SpectrumNow)

\* N lost a coefficient of S at a Nyquist index and kept another
LostNyquistOnly(S, N) ==
    /\ \E t \in DOMAIN S.data :
          AtNyquist(t) /\ N.data[t] = CZero /\ ~Kept(S, N, t) /\ ~SubEps(S, t)
    /\ \E t \in DOMAIN S.data : N.data[t] # CZero /\ Kept(S, N, t)

\* a round trip without dealiasing that lost Nyquist content and kept the rest
C11_Witness ==
    /\ op.arg = <<"xspace", "forward", "backward">> /\ err = "none"
    /\ cfg.dealiasing = "none"
    /\ LostNyquistOnly(SpectrumSet, SpectrumNow)

-----------------------------------------------------------------------------
(* Properties of enforce_hermitian (specification HermSpec) *)

\* the index of -k mod N
Neg(t, shape) == [a \in DOMAIN t |-> (shape[a] - t[a]) % shape[a]]

Hermitian(d, shape) ==
    /\ \A t \in DOMAIN d : d[Neg(t, shape)] = CConj(d[t])
    /\ IsReal(d[Origin(shape)])

\* C12: after the serial enforce_hermitian on a complex array of 1 to 3 axes of
\* any lengths, the call has returned, data[-k mod N] = conj(data[k]) for every
\* index k, and the entry at the zero index is real.
C12_HermitianAfterEnforce ==
    herm.phase = "done" =>
        herm.err = "none" /\ Hermitian(herm.data, herm.shape)

-----------------------------------------------------------------------------
(* Properties of the parallel enforce_hermitian (specification ParSpec) *)

AllDone == par.phase = "run" /\ \A p \in Ranks(par.nproc) : par.pc[p] = "done"

\* C13: for every number of processes, under every interleaving and whichever
\* way send requests complete, every process eventually returns from both
\* receives and from Waitall: the exchange does not deadlock.
C13_ExchangeCompletes == <>AllDone

\* four processes, send requests completing only on receipt, all returned
C13_Witness ==
    /\ AllDone
    /\ par.nproc = MaxProc
    /\ par.mode = "rendezvous"
    /\ \A c \in DOMAIN par.chan : par.chan[c] = <<>>

\* the serial enforce_hermitian on the whole array
SerialResult == enforce_hermitian([shape |-> par.shape, data |-> par.whole, err |-> "none"],
                                  Whole(par.shape))

SlabsOf(R) ==
    /\ R.err = "none"
    /\ \A p \in Ranks(par.nproc) :
          /\ par.err[p] = "none"
          /\ par.slab[p] = Slab(R.data, par.shape, par.nproc, p)

\* C14: for a Hermitian-symmetric 3-axis array split into leading-axis slabs,
\* once every process has run the parallel enforce_hermitian, each process
\* holds the corresponding slab of the serial enforce_hermitian of the whole
\* array.
C14_ParallelEqualsSerial ==
    (AllDone /\ Hermitian(par.whole, par.shape)) => SlabsOf(SerialResult)

-----------------------------------------------------------------------------
(* Properties of the shearing-box transforms and of set (specification Spec) *)

\* the forward transform of FourierRepresentation over all axes with the
\* normalisation of method m, followed by the cleanup Shear forward() runs
PlainForward(f, m) ==
    zero_nyquist(dealias(Retag(IF m = "fftw" THEN fwd_fftw(f) ELSE fwd_np(f), "kspace")))

\* the inverse transform over all axes with the normalisation of method m,
\* after dealiasing, with the imaginary parts kept
PlainInverse(f, m) ==
    Norm([dealias(f) EXCEPT !.data = DFTN(@, cfg.shape, 1),
                            !.scale = @ + (IF m = "numpy" THEN Log2(Size(cfg.shape)) ELSE 0)])

SameBuffer(f) == f.err = "none" /\ data' = f.data /\ scale' = f.scale

\* C15: with shear rate 0, forward() of FourierShearRepresentation leaves the
\* buffer the plain forward transform over all axes leaves (under either
\* normalisation, and the same cleanup), and backward() the buffer the plain
\* inverse transform leaves (its imaginary parts kept or dropped).
C15_ShearZeroIsPlain ==
    [][ ( /\ cfg.cls = "Shear"
          /\ cfg.deltay = 0
          /\ err = "none"
          /\ err' = "none" ) =>
          /\ (Called("forward") /\ curr_space = "xspace") =>
                \E m \in Methods : SameBuffer(PlainForward(Self, m))
          /\ (Called("backward") /\ curr_space = "kspace") =>
                \E m \in Methods :
                    \/ SameBuffer(PlainInverse(Self, m))
                    \/ SameBuffer(DropImag(PlainInverse(Self, m))) ]_vars

\* C16: a set with an array whose shape differs from the field's shape raises
\* an error and leaves the buffer and the tag unchanged.
C16_SetRejectsOtherShape ==
    [][ (Called("set") /\ err = "none" /\ op'.d.shape # cfg.shape) =>
            /\ err' # "none"
            /\ data' = data
            /\ scale' = scale
            /\ curr_space' = curr_space ]_vars

-----------------------------------------------------------------------------
(* Properties of k2 and of the cleanup methods (specification Script) *)

\* the square of the wavenumber of index t along axis a, 0 for a missing axis
KSq(a, t) ==
    IF a <= Len(cfg.shape)
    THEN (FftFreq(cfg.shape[a], t[a]) * cfg.kappa[a]) * (FftFreq(cfg.shape[a], t[a]) * cfg.kappa[a])
    ELSE 0

Last(seq) == seq[Len(seq)]

\* C17: k2(no_zero) returns an array of the field's shape whose entry at the
\* zero wavevector is 1 with no_zero and 0 without, and whose every other
\* entry is the sum over the axes of the squared wavenumber; the buffer, its
\* identity and the tag stay as they were.
C17_K2Values ==
    [][ Called("k2") =>
          /\ err' = "none"
          /\ ret'.ok
          /\ ret'.scale = 0
          /\ DOMAIN ret'.data = Idx(cfg.shape)
          /\ \A t \in Idx(cfg.shape) :
                ret'.data[t] =
                    IF t = Origin(cfg.shape)
                    THEN (IF Last(op'.arg) = "k2 no_zero" THEN One ELSE CZero)
                    ELSE <<KSq(1, t) + KSq(2, t) + KSq(3, t), 0, 0, 0>>
          /\ UNCHANGED <<data, scale, curr_space, bufid>> ]_vars

\* k2(no_zero=True) has returned on a grid of several axes with unequal
\* wavenumber spacings, for a field that holds data
C17_Witness ==
    /\ op.name = "k2"
    /\ Last(op.arg) = "k2 no_zero"
    /\ cfg.shape = <<2, 8>>
    /\ ret.data[Origin(cfg.shape)] = One
    /\ ret.data[<<1, 7>>] = <<5, 0, 0, 0>>
    /\ data # Zeros(cfg.shape)

Cleanups == {"zero_nyquist", "zero_under_eps"}

\* C18: zero_nyquist() and zero_under_eps() applied to a field that the same
\* method has just returned from leave the buffer and the tag as they are;
\* and either of them, called on a field in 'xspace', runs forward() once and
\* leaves the tag at 'kspace'.
C18_CleanupIdempotentInKspace ==
    [][ \A c \in Cleanups :
          Called(c) =>
            /\ (op.name = c /\ err = "none") =>
                  /\ err' = "none"
                  /\ UNCHANGED <<data, scale, curr_space, bufid>>
            /\ curr_space = "xspace" =>
                  /\ curr_space' = "kspace"
                  /\ Count(calls', "forward") = 1 ]_vars

\* zero_nyquist() ran twice in a row, the first time on a field in 'xspace'
\* with content at a Nyquist index, and returned both times
C18_Witness ==
    /\ op.arg = <<"xspace", "zero_nyquist", "zero_nyquist">>
    /\ err = "none"
    /\ curr_space = "kspace"
    /\ \E t \in Idx(cfg.shape) : AtNyquist(t) /\ SpectrumSet.data[t] # CZero

\* a 1-D field of 8 samples over length 2 pi with the defaults of __init__
Default8 ==
    [cls |-> "Fourier", method |-> "fftw", dealiasing |-> "2/3", shape |-> <<8>>,
     kappa |-> <<1>>, deltay |-> 0]

NonZero == {t \in Idx(cfg.shape) : data[t] # CZero}

\* C19: on the default 1-D field of 8 samples, set('xspace', sin(x)) and
\* forward() both return, and after forward() the field is in 'kspace' with
\* exactly the entries of wavenumber +1 and -1 nonzero, conjugates of each
\* other.
C19_SineOnDefault1D ==
    (cfg = Default8 /\ op.d = Sin8 /\ op.arg \in {<<"xspace">>, <<"xspace", "forward">>}) =>
        /\ err = "none"
        /\ op.arg = <<"xspace", "forward">> =>
              /\ curr_space = "kspace"
              /\ NonZero = {<<1>>, <<7>>}
              /\ data[<<7>>] = CConj(data[<<1>>])

-----------------------------------------------------------------------------
(* Properties of load_all_data (specification RestoreSpec) *)

\* the datasets of components 1..i are all in the file
ReadUpTo(i) == \A j \in 1..i : rst.file[j].present

\* C20: after load_all_data every component read (every component up to the
\* first one missing from the file) has the stored array in the buffer it had
\* before, carries the stored 'space' attribute as its tag, and has run no
\* method of its own; the call raises KeyError exactly when a component is
\* missing from the file.
C20_RestoreWritesBufferAndTag ==
    rst.phase = "loaded" =>
        /\ rst.err = (IF ReadUpTo(Len(rst.comps)) THEN "none" ELSE "KeyError")
        /\ \A i \in DOMAIN rst.comps :
              ReadUpTo(i) =>
                  /\ rst.comps[i].data = rst.file[i].d.v
                  /\ rst.comps[i].scale = 0
                  /\ rst.comps[i].space = rst.file[i].space
                  /\ rst.comps[i].id = rst.before[i].id
                  /\ rst.comps[i].calls = <<>>
                  /\ rst.comps[i].err = "none"

\* two components restored under the 2/3 policy, the first from a physical
\* array with content a transform or the dealias mask would change, into a
\* field that was in 'kspace'
C20_Witness ==
    /\ rst.phase = "loaded"
    /\ rst.err = "none"
    /\ Len(rst.comps) = 2
    /\ cfg.dealiasing = "2/3"
    /\ rst.before[1].space = "kspace"
    /\ rst.file[1].space = "xspace"
    /\ rst.file[1].d = Delta(cfg.shape, NyquistIndex(cfg.shape), <<32, 0, 0, 0>>)
    /\ rst.comps[1].data = rst.file[1].d.v

-----------------------------------------------------------------------------
(* Properties of the transform strategies (specification Spec) *)

Transforming == {"get", "forward", "backward"}

\* C21: under the numpy method, and in the shear representation, a get, a
\* forward() or a backward() leaves field.data the buffer it was before the
\* call, so that it stays the buffer allocated at construction.
C21_TransformKeepsBuffer ==
    [][ ( /\ cfg.method = "numpy" \/ cfg.cls = "Shear"
          /\ \E c \in Transforming : Called(c) ) => bufid' = bufid ]_vars

\* forward() with the transform of the fftw method: the sum with kernel
\* exp(-i k x) divided by the number of elements, then the cleanup
NormalisedForward(f) ==
    zero_under_eps(zero_nyquist(dealias(Retag(fwd_fftw(f), "kspace"))))

\* backward() with the transform of the fftw method: the inverse that undoes
\* the normalised forward transform
InverseOfNormalised(f) == rev_fftw(dealias(f))

\* C22: for FourierRepresentation under either method, forward() leaves the
\* cleaned-up transform divided by the number of elements, and backward() on a
\* field in 'kspace' leaves the one physical field that transform belongs to:
\* both methods leave the same buffer for the same input.
C22_StrategiesAgree ==
    [][ (cfg.cls = "Fourier" /\ err = "none" /\ err' = "none") =>
          /\ Called("forward") => SameBuffer(NormalisedForward(Self))
          /\ (Called("backward") /\ curr_space = "kspace") =>
                SameBuffer(InverseOfNormalised(Self)) ]_vars

-----------------------------------------------------------------------------
(* Further properties of the parallel enforce_hermitian (specification ParSpec) *)

\* (M + conj(flip(M))) / 2 on the whole array G
MirrorAverage(G, shape) ==
    [t \in Idx(shape) |-> CHalf(CAdd(G[t], CConj(G[Neg(t, shape)])))]

\* C23: once every process has run the parallel enforce_hermitian, whatever
\* the shape of the whole array, every process holds for each index g of its
\* slab (old[g] + conj(old[(-g) mod N])) / 2 of the values held before the
\* exchange.
C23_ParallelAverages ==
    AllDone =>
        \A p \in Ranks(par.nproc) :
            /\ par.err[p] = "none"
            /\ par.slab[p] = Slab(MirrorAverage(par.whole, par.shape),
                                  par.shape, par.nproc, p)

\* the slab process p held before the exchange
OldSlab(p) == Slab(par.whole, par.shape, par.nproc, p)

\* C27: left and right are involutions on the ranks for every number of
\* processes; when all processes have finished, every process has received
\* exactly the message its left peer and the message its right peer addressed
\* to it, every send request is complete and no message is left in a channel.
C27_EveryMessageReceivedOnce ==
    par.phase = "run" =>
        /\ \A r \in Ranks(par.nproc) :
              /\ Left(par.nproc, r) \in Ranks(par.nproc)
              /\ Right(par.nproc, r) \in Ranks(par.nproc)
              /\ Left(par.nproc, Left(par.nproc, r)) = r
              /\ Right(par.nproc, Right(par.nproc, r)) = r
        /\ \A c \in DOMAIN par.chan : Len(par.chan[c]) <= 2
        /\ AllDone =>
              /\ \A c \in DOMAIN par.chan : par.chan[c] = <<>>
              /\ \A p \in Ranks(par.nproc) :
                    /\ par.req[p] = <<TRUE, TRUE>>
                    /\ par.got[p] = <<OldSlab(Left(par.nproc, p)),
                                      OldSlab(Right(par.nproc, p))>>

\* three processes, send requests complete on buffering, all finished
C27_Witness ==
    /\ AllDone
    /\ par.nproc = 3
    /\ par.mode = "eager"
    /\ \A p \in Ranks(par.nproc) : Len(par.got[p]) = 2

-----------------------------------------------------------------------------
(* Property of the axis label table (specification Spec) *)

AxisIndices == {0, 1, 2}

\* C24: a field whose construction succeeded has a label table that maps the
\* axis indices 0, 1, 2 to distinct labels and in which index -> label ->
\* index is the identity.
C24_TransIsOneToOne ==
    (op.name = "init" /\ err = "none") =>
        /\ \A i, j \in AxisIndices : i # j => TransLabel(i) # TransLabel(j)
        /\ \A i \in AxisIndices : TransIndex(TransLabel(i)) = i

-----------------------------------------------------------------------------
(* Properties of cs2_at (specification CsSpec) *)

Dist(a, b) == IF a >= b THEN a - b ELSE b - a

\* entry j of the table is at least as near to a as every other entry
Nearest(j) == \A k \in DOMAIN phys.tab : Dist(phys.a, phys.tab[j]) <= Dist(phys.a, phys.tab[k])

\* C25: what cs2_at(a) returns is the sound speed stored with an entry of the
\* table whose scale factor is nearest to a.
C25_Cs2AtNearest ==
    (phys.phase = "cs2" /\ phys.pc = "returned") =>
        \E j \in DOMAIN phys.tab : Nearest(j) /\ phys.ret = phys.vals[j]

\* C28: a call of cs2_at never reads the table out of range, and it returns.
C28_Cs2AtTerminates ==
    /\ [](phys.pc # "raised")
    /\ (phys.pc = "loop") ~> (phys.pc = "returned")

-----------------------------------------------------------------------------
(* Property of Physics.__init__ (specification PhysSpec) *)

\* the class and representation each sample script constructs
SamplePairings ==
    { <<"LinearCollisionlessCosmology", "FourierRepresentation">>,
      <<"CollisionlessCosmology", "FourierRepresentation">>,
      <<"BaryonCDMCosmology", "ParallelFourierRepresentation">>,
      <<"IncompressibleHydro", "FourierRepresentation">> }

\* C26: the construction of a physics object with a class and representation
\* a sample script pairs does not raise.
C26_SamplePairingsConstruct ==
    ( /\ phys.phase = "physics"
      /\ phys.pc = "built"
      /\ <<phys.cls, phys.rep>> \in SamplePairings ) => phys.err = "none"

-----------------------------------------------------------------------------
(* Property of the cleanup methods (specification CleanSpec) *)

CleanupCalls == {"dealias", "zero_nyquist", "zero_under_eps"}

\* C29: dealias_23, zero_nyquist and zero_under_eps, called on a field in
\* 'kspace' whose buffer satisfies data[-k] = conj(data[k]), leave a buffer
\* that satisfies it, whatever the axis lengths.
C29_CleanupKeepsHermitian ==
    [][ ( /\ \E c \in CleanupCalls : Called(c)
          /\ curr_space = "kspace"
          /\ Hermitian(data, cfg.shape)
          /\ err' = "none" ) => Hermitian(data', cfg.shape) ]_vars

-----------------------------------------------------------------------------
(* Further property of the serial enforce_hermitian (specification HermSpec) *)

EvenShape(shape) == \A a \in DOMAIN shape : shape[a] % 2 = 0

\* C30: on arrays of 1 to 3 axes of even lengths, a call of the serial
\* enforce_hermitian on an array that satisfies data[-k] = conj(data[k])
\* returns and leaves every entry unchanged, and so does a second call on the
\* array the first call returned.
C30_EnforceIdempotent ==
    [][ (herm.phase \in {"ready", "done"} /\ EvenShape(herm.shape)) =>
          /\ (herm.phase = "done" \/ Hermitian(herm.data, herm.shape)) =>
                /\ herm'.err = "none"
                /\ herm'.data = herm.data ]_vars

\* the second call has returned on an array of three axes that the first call
\* had to change
C30_Witness ==
    /\ herm.phase = "twice"
    /\ herm.shape = <<4, 2, 4>>
    /\ herm.err = "none"
    /\ herm.first # herm.data
    /\ ~Hermitian(herm.first, herm.shape)
    /\ Hermitian(herm.data, herm.shape)

=============================================================================
